---- MODULE Spec2Model ----
(***************************************************************************)
(* State-machine model of src/src/App.tsx (ValueGlance stock dashboard):   *)
(* the App component's state, the async fetchStocks refresh cycle with its *)
(* inline response classification, parseSymbols, handleSort and the input  *)
(* onChange handler.                                                       *)
(*                                                                         *)
(* Strings are sequences of one-character strings.  A JavaScript number is *)
(* a record [t, n] with t = "num" (value n), "nan" or "null" (the null of  *)
(* `number | null`).  An optional value (string | null, Date | null) is    *)
(* the empty sequence for null and a one-element sequence otherwise.       *)
(***************************************************************************)
EXTENDS Integers, Sequences, FiniteSets, TLC

\* Bound: the number of fetchStocks invocations in one behaviour.
MaxCalls == 3

\* Bound: the number of fetchStocks invocations running at the same time.
MaxCycles == 2

\* Bound: the number of rows of the lists given to the row sorter alone.
MaxRows == 3

VARIABLES
    symbolsInput,   \* useState: text of the symbol input (line 18)
    rows,           \* useState: committed StockRow[] (line 23)
    loading,        \* useState: loading flag (line 25)
    error,          \* useState: string | null (line 27)
    sortKey,        \* useState: SortKey (line 29)
    sortDir,        \* useState: "asc" | "desc" (line 30)
    lastUpdated,    \* useState: Date | null (line 32)
    mounted,        \* whether the mount effect (line 135) has run
    calls,          \* number of fetchStocks invocations so far
    cyc,            \* per running invocation: position, symbols, private results
    clock,          \* wall clock read by new Date()
    api,            \* behaviour of the quote endpoint (any, or one fixed response)
    net,            \* the requests issued by fetch (line 56) and not yet settled
    sortedRows      \* the sortedRows of the last render (line 149)

vars == <<symbolsInput, rows, loading, error, sortKey, sortDir, lastUpdated,
          mounted, calls, cyc, clock, api, net, sortedRows>>

----------------------------------------------------------------------------
\* JavaScript values

NULL == [t |-> "null", n |-> 0]
NaN == [t |-> "nan", n |-> 0]
Num(n) == [t |-> "num", n |-> n]

\* A JSON value as far as the handler inspects it: its type, its text when
\* it is a string, its value when it is a number.
Undefined == [t |-> "undefined", s |-> <<>>, n |-> 0]
JNull == [t |-> "null", s |-> <<>>, n |-> 0]
JStr(s) == [t |-> "string", s |-> s, n |-> 0]
JNum(n) == [t |-> "number", s |-> <<>>, n |-> n]

\* JavaScript truthiness (ToBoolean).
Truthy(v) ==
    CASE v.t \in {"undefined", "null"} -> FALSE
      [] v.t = "string" -> v.s # <<>>
      [] v.t = "number" -> v.n # 0
      [] v.t = "bool" -> v.n # 0
      [] OTHER -> TRUE

Digits == {"0", "1", "2", "3", "4", "5", "6", "7", "8", "9"}
DigitVal == ("0" :> 0) @@ ("1" :> 1) @@ ("2" :> 2) @@ ("3" :> 3) @@ ("4" :> 4)
            @@ ("5" :> 5) @@ ("6" :> 6) @@ ("7" :> 7) @@ ("8" :> 8) @@ ("9" :> 9)

\* String(n) for an integer n.
RECURSIVE NatToString(_)
NatToString(n) ==
    IF n < 10 THEN << CHOOSE d \in Digits : DigitVal[d] = n >>
    ELSE Append(NatToString(n \div 10), CHOOSE d \in Digits : DigitVal[d] = n % 10)

IntToString(n) == IF n < 0 THEN <<"-">> \o NatToString(-n) ELSE NatToString(n)

\* ToString of a JSON value handed to parseFloat.
JsToString(v) ==
    CASE v.t = "string" -> v.s
      [] v.t = "number" -> IntToString(v.n)
      [] OTHER -> <<"x">>

\* Longest prefix of s made of digits.
RECURSIVE DigitPrefix(_)
DigitPrefix(s) ==
    IF s = <<>> \/ Head(s) \notin Digits THEN <<>>
    ELSE <<Head(s)>> \o DigitPrefix(Tail(s))

RECURSIVE DigitsValue(_, _)
DigitsValue(s, acc) ==
    IF s = <<>> THEN acc ELSE DigitsValue(Tail(s), 10 * acc + DigitVal[Head(s)])

RECURSIVE TrimStart(_)
TrimStart(s) == IF s # <<>> /\ Head(s) = " " THEN TrimStart(Tail(s)) ELSE s

RECURSIVE TrimEnd(_)
TrimEnd(s) ==
    IF s # <<>> /\ s[Len(s)] = " " THEN TrimEnd(SubSeq(s, 1, Len(s) - 1)) ELSE s

\* String.prototype.trim
Trim(s) == TrimEnd(TrimStart(s))

\* parseFloat on strings without a fraction or an exponent: leading white
\* space is skipped, an optional sign and the longest run of digits are
\* read, the rest is ignored, and NaN results when there is no digit.
parseFloat(s) ==
    LET t == TrimStart(s)
        neg == t # <<>> /\ Head(t) = "-"
        u == IF t # <<>> /\ Head(t) \in {"-", "+"} THEN Tail(t) ELSE t
        d == DigitPrefix(u)
    IN IF d = <<>> THEN NaN
       ELSE Num(IF neg THEN 0 - DigitsValue(d, 0) ELSE DigitsValue(d, 0))

\* String.prototype.replace(pat, "") with a one-character string pattern:
\* the first occurrence is removed.
RECURSIVE ReplaceFirst(_, _)
ReplaceFirst(s, c) ==
    IF s = <<>> THEN <<>>
    ELSE IF Head(s) = c THEN Tail(s)
    ELSE <<Head(s)>> \o ReplaceFirst(Tail(s), c)

\* String.prototype.toUpperCase on the letters of the modelled alphabet.
Lower == {"a", "b", "l", "p"}
UpperOf == ("a" :> "A") @@ ("b" :> "B") @@ ("l" :> "L") @@ ("p" :> "P")
toUpperCase(s) == [i \in 1..Len(s) |-> IF s[i] \in Lower THEN UpperOf[s[i]] ELSE s[i]]

\* String.prototype.split(sep) with a one-character separator: the pieces
\* between separators, empty pieces included ("" splits into [""]).
RECURSIVE SplitFrom(_, _, _)
SplitFrom(s, sep, piece) ==
    IF s = <<>> THEN <<piece>>
    ELSE IF Head(s) = sep THEN <<piece>> \o SplitFrom(Tail(s), sep, <<>>)
    ELSE SplitFrom(Tail(s), sep, Append(piece, Head(s)))

split(s, sep) == SplitFrom(s, sep, <<>>)

\* Array.prototype.filter(Boolean) on strings: the empty string is falsy.
filterBoolean(ss) == SelectSeq(ss, LAMBDA x : x # <<>>)

\* Array.prototype.join(sep)
RECURSIVE join(_, _)
join(ss, sep) ==
    IF ss = <<>> THEN <<>>
    ELSE IF Len(ss) = 1 THEN ss[1]
    ELSE ss[1] \o sep \o join(Tail(ss), sep)

----------------------------------------------------------------------------
\* Program constants and the symbol parser

\* DEFAULT_SYMBOLS = ["AAPL"]
DEFAULT_SYMBOLS == << <<"A", "A", "P", "L">> >>

\* parseSymbols with the filter step left out (mutation of parseSymbols).
parseSymbolsNoFilter(input) ==
    LET pieces == split(input, ",")
    IN [i \in 1..Len(pieces) |-> toUpperCase(Trim(pieces[i]))]

\* symbolsInput.split(",").map((s) => s.trim().toUpperCase()).filter(Boolean)
parseSymbols(input) ==
    LET pieces == split(input, ",")
        mapped == [i \in 1..Len(pieces) |-> toUpperCase(Trim(pieces[i]))]
    IN filterBoolean(mapped)

\* type SortKey
SortKeys == {"symbol", "price", "changePercent"}

\* StockRow["status"]
Statuses == {"ok", "rate-limited", "error", "no-data"}

\* A StockRow.
Row(symbol, price, changePercent, status) ==
    [symbol |-> symbol, price |-> price, changePercent |-> changePercent,
     status |-> status]

----------------------------------------------------------------------------
\* Response shapes of the quote endpoint

\* The value of data["Global Quote"]: a JSON value which, when it is an
\* object, has the members "05. price" and "10. change percent" (Undefined
\* when the member is missing).
Quote(v, price, changePercent) ==
    [t |-> v.t, s |-> v.s, n |-> v.n, price |-> price,
     changePercent |-> changePercent]

QuoteObject(price, changePercent) ==
    Quote([t |-> "object", s |-> <<>>, n |-> 0], price, changePercent)

QuoteValue(v) == Quote(v, Undefined, Undefined)

\* The parsed body: a JSON value which, when it is an object, has the members
\* Note, Information, "Error Message", "Global Quote" (Undefined when
\* missing) and `other` further members.  For an array, n is its length.
Body(v, note, information, errorMessage, globalQuote, other) ==
    [t |-> v.t, s |-> v.s, n |-> v.n, Note |-> note, Information |-> information,
     ErrorMessage |-> errorMessage, GlobalQuote |-> globalQuote, other |-> other]

BodyObject(note, information, errorMessage, globalQuote, other) ==
    Body([t |-> "object", s |-> <<>>, n |-> 0], note, information, errorMessage,
         globalQuote, other)

BodyValue(v) == Body(v, Undefined, Undefined, Undefined, QuoteValue(Undefined), 0)

\* A body text that JSON.parse rejects.
Unparseable == BodyValue([t |-> "unparseable", s |-> <<>>, n |-> 0])

\* Member values the endpoint may send.
NoteValues == {Undefined, JStr(<<>>), JStr(<<"x">>), JNum(1)}
ErrorValues == {Undefined, JNull, JStr(<<>>), JStr(<<"x">>)}
PriceValues == {Undefined, JStr(<<>>), JStr(<<"5">>), JStr(<<"x">>), JNum(12)}
ChangeValues == {Undefined, JStr(<<>>), JStr(<<"1", "%">>), JStr(<<"-", "2", "%">>),
                 JNum(3)}
QuoteValues ==
    {QuoteValue(Undefined), QuoteValue(JNull), QuoteValue(JStr(<<"x">>))}
    \cup {QuoteObject(p, c) : p \in PriceValues, c \in ChangeValues}

\* Bodies that are not JSON objects.
NonObjectBodies ==
    {BodyValue(JNull), BodyValue(JNum(0)), BodyValue(JNum(7)),
     BodyValue([t |-> "bool", s |-> <<>>, n |-> 1]),
     BodyValue(JStr(<<>>)), BodyValue(JStr(<<"x">>)),
     BodyValue([t |-> "array", s |-> <<>>, n |-> 0]),
     BodyValue([t |-> "array", s |-> <<>>, n |-> 1])}

ObjectBodies ==
    {BodyObject(a, b, e, q, o) :
        a \in NoteValues, b \in {Undefined, JStr(<<"x">>)}, e \in ErrorValues,
        q \in QuoteValues, o \in {0, 1}}

AllBodies == {Unparseable} \cup NonObjectBodies \cup ObjectBodies

\* What the request of one symbol does: fetch rejects with a thrown value
\* (an Error with a message, or something else), or resolves to a response
\* with an ok flag and a body.
Response(kind, isError, message, ok, body) ==
    [kind |-> kind, isError |-> isError, message |-> message, ok |-> ok,
     body |-> body]

Rejections ==
    {Response("reject", TRUE, "Failed to fetch", FALSE, Unparseable),
     Response("reject", FALSE, "", FALSE, Unparseable)}

Responses(bodies) ==
    Rejections \cup {Response("response", TRUE, "", ok, b) : ok \in BOOLEAN, b \in bodies}

AnyResponse == Response("any", FALSE, "", FALSE, Unparseable)

----------------------------------------------------------------------------
\* The per-symbol body of the loop in fetchStocks

typeofString(v) == v.t = "string"

\* data.Note, data.Information, data["Error Message"], data["Global Quote"]
\* on a non-null value: undefined unless data is an object with the member.
Member(data, k) ==
    IF data.t = "object" THEN data[k]
    ELSE IF k = "GlobalQuote" THEN QuoteValue(Undefined) ELSE Undefined

\* quote["05. price"], quote["10. change percent"] on a truthy value.
QuoteMember(quote, k) == IF quote.t = "object" THEN quote[k] ELSE Undefined

EmptyObject ==
    BodyObject(Undefined, Undefined, Undefined, QuoteValue(Undefined), 0)

\* Object.keys(v).length: own enumerable keys of an object, the indices of a
\* string or an array, none for a number or a boolean.
ObjectKeysLength(v) ==
    CASE v.t = "object" ->
            Cardinality({k \in {"Note", "Information", "ErrorMessage", "GlobalQuote"} :
                            v[k].t # "undefined"}) + v.other
      [] v.t = "string" -> Len(v.s)
      [] v.t = "array" -> v.n
      [] OTHER -> 0

\* looksEmpty without the key count (mutation of looksEmpty).
looksEmptyNoKeys(data, quote) == ~Truthy(quote)

\* const looksEmpty = !quote && Object.keys(data || {}).length === 0
looksEmpty(data, quote) ==
    /\ ~Truthy(quote)
    /\ ObjectKeysLength(IF Truthy(data) THEN data ELSE EmptyObject) = 0

\* What one pass of the loop body does after the response arrived: it throws
\* (threw, with the message of the thrown Error) or pushes a row.
Thrown(message) ==
    [threw |-> TRUE, message |-> message, row |-> Row(<<>>, NULL, NULL, "error")]
Pushed(row) == [threw |-> FALSE, message |-> "", row |-> row]

\* The change percent of the normal case with a missing field read as null
\* (mutation of changePercentOf).
changePercentOfNoDefault(quote) ==
    LET cp == QuoteMember(quote, "changePercent")
    IN IF Truthy(cp) THEN parseFloat(ReplaceFirst(cp.s, "%")) ELSE NULL

\* parseFloat((quote["10. change percent"] || "0").replace("%", "")), for a
\* field that is falsy or a string
changePercentOf(quote) ==
    LET cp == QuoteMember(quote, "changePercent")
    IN parseFloat(ReplaceFirst(IF Truthy(cp) THEN cp.s ELSE <<"0">>, "%"))

\* The loop body with the provider-error test ahead of the throttling test
\* (mutation of Classify).
ClassifyErrorFirst(symbol, data) ==
    IF data.t = "unparseable" THEN Thrown("Unexpected token")
    ELSE IF data.t = "null" THEN Thrown("Cannot read properties of null")
    ELSE IF Truthy(Member(data, "ErrorMessage"))
    THEN Pushed(Row(symbol, NULL, NULL, "error"))
    ELSE IF typeofString(Member(data, "Note"))
            \/ typeofString(Member(data, "Information"))
    THEN Pushed(Row(symbol, NULL, NULL, "rate-limited"))
    ELSE LET quote == Member(data, "GlobalQuote")
         IN IF ~Truthy(quote) \/ ~Truthy(QuoteMember(quote, "price"))
            THEN Pushed(Row(symbol, NULL, NULL,
                            IF looksEmpty(data, quote) THEN "rate-limited"
                            ELSE "no-data"))
            ELSE LET cp == QuoteMember(quote, "changePercent")
                 IN IF Truthy(cp) /\ ~typeofString(cp)
                    THEN Thrown("replace is not a function")
                    ELSE Pushed(Row(symbol,
                                    parseFloat(JsToString(QuoteMember(quote, "price"))),
                                    changePercentOf(quote), "ok"))

\* Lines 68-120 for a response with res.ok: res.json() and the tests on data.
Classify(symbol, data) ==
    \* await res.json() rejects with a SyntaxError
    IF data.t = "unparseable" THEN Thrown("Unexpected token")
    \* data.Note on null throws a TypeError
    ELSE IF data.t = "null" THEN Thrown("Cannot read properties of null")
    ELSE IF typeofString(Member(data, "Note"))
            \/ typeofString(Member(data, "Information"))
    THEN Pushed(Row(symbol, NULL, NULL, "rate-limited"))
    ELSE IF Truthy(Member(data, "ErrorMessage"))
    THEN Pushed(Row(symbol, NULL, NULL, "error"))
    ELSE LET quote == Member(data, "GlobalQuote")
         IN IF ~Truthy(quote) \/ ~Truthy(QuoteMember(quote, "price"))
            THEN Pushed(Row(symbol, NULL, NULL,
                            IF looksEmpty(data, quote) THEN "rate-limited"
                            ELSE "no-data"))
            \* a truthy change percent that is no string has no replace method
            ELSE LET cp == QuoteMember(quote, "changePercent")
                 IN IF Truthy(cp) /\ ~typeofString(cp)
                    THEN Thrown("replace is not a function")
                    ELSE Pushed(Row(symbol,
                                    parseFloat(JsToString(QuoteMember(quote, "price"))),
                                    changePercentOf(quote), "ok"))

----------------------------------------------------------------------------
\* The row sorter, lines 149-156

\* The characters of the symbols, in the order of their code units.
CodeUnitOrder == <<" ", ",", "A", "B", "L", "P">>
CodeUnitRank(ch) == CHOOSE i \in 1..Len(CodeUnitOrder) : CodeUnitOrder[i] = ch

\* a < b for two strings: by code units, a proper prefix first.
RECURSIVE StringLess(_, _)
StringLess(a, b) ==
    IF b = <<>> THEN FALSE
    ELSE IF a = <<>> THEN TRUE
    ELSE IF Head(a) = Head(b) THEN StringLess(Tail(a), Tail(b))
    ELSE CodeUnitRank(Head(a)) < CodeUnitRank(Head(b))

\* ToNumber of a value of type number | null: null converts to 0.
ToNumber(v) == IF v.t = "null" THEN Num(0) ELSE v

\* a < b for two values of type number | null: null converts to 0 and every
\* comparison with NaN is false.
NumberLess(a, b) ==
    LET x == ToNumber(a)
        y == ToNumber(b)
    IN x.t = "num" /\ y.t = "num" /\ x.n < y.n

\* av < bv for the values of the field `key` of two rows.
Less(key, av, bv) ==
    IF key = "symbol" THEN StringLess(av, bv) ELSE NumberLess(av, bv)

\* The comparator with the two branches exchanged (mutation of compare).
compareReversed(a, b, key, dir) ==
    LET d == IF dir = "asc" THEN 1 ELSE -1
    IN IF Less(key, a[key], b[key]) THEN 1 * d
       ELSE IF Less(key, b[key], a[key]) THEN -1 * d
       ELSE 0

\* The comparator of lines 149-156.
compare(a, b, key, dir) ==
    LET d == IF dir = "asc" THEN 1 ELSE -1
        av == a[key]
        bv == b[key]
    IN IF Less(key, av, bv) THEN -1 * d
       ELSE IF Less(key, bv, av) THEN 1 * d
       ELSE 0

Sign(n) == IF n < 0 THEN -1 ELSE IF n > 0 THEN 1 ELSE 0

\* Whether the comparator is a consistent comparator for the rows of items
\* (ECMAScript, Array.prototype.sort): it is antisymmetric, and "equal",
\* "less" and "greater" are transitive (which, given the first two, only
\* three different rows can contradict).
ConsistentComparator(items, key, dir) ==
    LET S == {items[i] : i \in 1..Len(items)}
        cmp(a, b) == Sign(compare(a, b, key, dir))
    IN /\ \A a \in S : cmp(a, a) = 0
       /\ \A a, b \in S : a # b => cmp(a, b) = -cmp(b, a)
       /\ \A a, b \in S :
             a # b =>
                \A c \in S :
                   c # a /\ c # b =>
                      LET ab == cmp(a, b)
                      IN cmp(b, c) = ab => cmp(a, c) = ab

\* row put into a sorted list, after the rows that do not compare greater.
RECURSIVE Insert(_, _, _, _)
Insert(sorted, row, key, dir) ==
    IF sorted = <<>> THEN <<row>>
    ELSE IF compare(Head(sorted), row, key, dir) > 0 THEN <<row>> \o sorted
    ELSE <<Head(sorted)>> \o Insert(Tail(sorted), row, key, dir)

\* The stable sort of items by a consistent comparator.
RECURSIVE StableSort(_, _, _)
StableSort(items, key, dir) ==
    IF items = <<>> THEN <<>>
    ELSE Insert(StableSort(SubSeq(items, 1, Len(items) - 1), key, dir),
                items[Len(items)], key, dir)

\* The rearrangements of items: any element first, then a rearrangement of
\* the others.
RECURSIVE Rearrangements(_)
Rearrangements(items) ==
    IF items = <<>> THEN {<<>>}
    ELSE UNION {{<<items[i]>> \o r :
                   r \in Rearrangements(SubSeq(items, 1, i - 1)
                                         \o SubSeq(items, i + 1, Len(items)))} :
                i \in 1..Len(items)}

\* [...items].sort(comparator): a copy of items, sorted stably when the
\* comparator is consistent; otherwise the order is implementation-defined,
\* any rearrangement of items.
Sort(items, key, dir) ==
    IF Len(items) < 2 THEN {items}
    ELSE IF ConsistentComparator(items, key, dir) THEN {StableSort(items, key, dir)}
    ELSE Rearrangements(items)

----------------------------------------------------------------------------
\* The state machine

\* The slots of the invocations of fetchStocks that run at the same time.  A
\* slot keeps how its last invocation ended until the next one takes it.
Cycles == 1..MaxCycles

\* A slot whose invocation is not running: none yet ("idle"), returned at
\* the guard ("returned"), or ended ("committed", "aborted").
Stopped(pc) == [pc |-> pc, symbols |-> <<>>, results |-> <<>>]

\* An invocation is running while it waits for fetch or for res.json().
Running(c) == cyc[c].pc \in {"fetch", "json"}

\* The slot the next invocation takes.
FreeSlot == CHOOSE c \in Cycles : ~Running(c) /\ \A d \in 1..(c - 1) : Running(d)

\* Inputs the user types.
Inputs ==
    {join(DEFAULT_SYMBOLS, <<",", " ">>),
     <<>>,
     <<" ", ",", " ">>,
     <<"b", ",", " ", "a">>,
     <<"a", " ", ",", ",", "a">>}

\* Bodies the endpoint sends when its behaviour is not fixed: one of each
\* kind of outcome.
CommonBodies ==
    {Unparseable, BodyValue(JNull), EmptyObject,
     BodyObject(JStr(<<"x">>), Undefined, Undefined,
                QuoteObject(JStr(<<"5">>), JStr(<<"1", "%">>)), 0),
     BodyObject(Undefined, Undefined, JStr(<<"x">>), QuoteValue(Undefined), 0),
     BodyObject(Undefined, Undefined, Undefined, QuoteObject(Undefined, Undefined), 0),
     BodyObject(Undefined, Undefined, Undefined,
                QuoteObject(JStr(<<"5">>), JStr(<<"1", "%">>)), 0),
     BodyObject(Undefined, Undefined, Undefined,
                QuoteObject(JStr(<<"x">>), Undefined), 0),
     BodyObject(Undefined, Undefined, Undefined,
                QuoteObject(JStr(<<"5">>), JNum(3)), 0)}

\* The responses the endpoint may give to the next request.
Served == IF api.kind = "any" THEN Responses(CommonBodies) ELSE {api}

\* How fetch may settle for the next request: the served responses without
\* their bodies, which are read later by res.json().
ServedHeads == {Response(r.kind, r.isError, r.message, r.ok, Unparseable) : r \in Served}

\* The request of invocation c for its i-th symbol: fetch(url), line 56.
Request(c, i, symbol) == [cycle |-> c, index |-> i, symbol |-> symbol]

\* The request invocation c is waiting for.
CurrentRequest(c) ==
    Request(c, Len(cyc[c].results) + 1, cyc[c].symbols[Len(cyc[c].results) + 1])

\* The render that follows every change of state computes sortedRows from
\* the new rows, sortKey and sortDir; the same build sorts the same rows in
\* the same way.
Render ==
    IF rows' = rows /\ sortKey' = sortKey /\ sortDir' = sortDir
    THEN UNCHANGED sortedRows
    ELSE sortedRows' \in Sort(rows', sortKey', sortDir')

\* The component after construction: the useState initial values.
InitApp ==
    /\ symbolsInput = join(DEFAULT_SYMBOLS, <<",", " ">>)
    /\ rows = <<>>
    /\ loading = FALSE
    /\ error = <<>>
    /\ sortKey = "symbol"
    /\ sortDir = "asc"
    /\ lastUpdated = <<>>
    /\ mounted = FALSE
    /\ calls = 0
    /\ cyc = [c \in Cycles |-> Stopped("idle")]
    /\ clock = 0
    /\ net = {}
    /\ sortedRows = <<>>

\* The endpoint may answer every request in any way.
Init == InitApp /\ api = AnyResponse

\* The endpoint answers every request in one way, whatever that way is: any
\* rejection, any body with a success status, any of the common bodies with
\* a failure status.
FixedResponses ==
    Rejections
    \cup {Response("response", TRUE, "", TRUE, b) : b \in AllBodies}
    \cup {Response("response", TRUE, "", FALSE, b) : b \in CommonBodies}

InitFixed == InitApp /\ api \in FixedResponses

\* fetchStocks putting the sort back to its initial state (mutation of
\* fetchStocks).
fetchStocksResetSort ==
    /\ calls < MaxCalls
    /\ \E c \in Cycles : ~Running(c)
    /\ calls' = calls + 1
    /\ LET symbols == parseSymbols(symbolsInput)
       IN IF Len(symbols) = 0
          THEN /\ cyc' = [cyc EXCEPT ![FreeSlot] = Stopped("returned")]
               /\ UNCHANGED <<loading, error, net>>
          ELSE /\ cyc' = [cyc EXCEPT ![FreeSlot] =
                             [pc |-> "fetch", symbols |-> symbols, results |-> <<>>]]
               /\ loading' = TRUE
               /\ error' = <<>>
               /\ net' = net \cup {Request(FreeSlot, 1, symbols[1])}
    /\ sortKey' = "symbol"
    /\ sortDir' = "asc"
    /\ UNCHANGED <<symbolsInput, rows, lastUpdated, clock, api>>

\* fetchStocks issuing the requests of all its symbols at once (mutation of
\* fetchStocks).
fetchStocksAllAtOnce ==
    /\ calls < MaxCalls
    /\ \E c \in Cycles : ~Running(c)
    /\ calls' = calls + 1
    /\ LET symbols == parseSymbols(symbolsInput)
       IN IF Len(symbols) = 0
          THEN /\ cyc' = [cyc EXCEPT ![FreeSlot] = Stopped("returned")]
               /\ UNCHANGED <<loading, error, net>>
          ELSE /\ cyc' = [cyc EXCEPT ![FreeSlot] =
                             [pc |-> "fetch", symbols |-> symbols, results |-> <<>>]]
               /\ loading' = TRUE
               /\ error' = <<>>
               /\ net' = net \cup {Request(FreeSlot, i, symbols[i]) :
                                      i \in 1..Len(symbols)}
    /\ UNCHANGED <<symbolsInput, rows, sortKey, sortDir, lastUpdated, clock, api>>

\* fetchStocks without the empty-list guard: with no symbol the loop is
\* skipped and the empty list committed (mutation of fetchStocks).
fetchStocksNoGuard ==
    /\ calls < MaxCalls
    /\ \E c \in Cycles : ~Running(c)
    /\ calls' = calls + 1
    /\ LET symbols == parseSymbols(symbolsInput)
       IN IF Len(symbols) = 0
          THEN /\ cyc' = [cyc EXCEPT ![FreeSlot] = Stopped("committed")]
               /\ loading' = FALSE
               /\ error' = <<>>
               /\ rows' = <<>>
               /\ clock' = clock + 1
               /\ lastUpdated' = <<clock'>>
               /\ UNCHANGED net
          ELSE /\ cyc' = [cyc EXCEPT ![FreeSlot] =
                             [pc |-> "fetch", symbols |-> symbols, results |-> <<>>]]
               /\ loading' = TRUE
               /\ error' = <<>>
               /\ net' = net \cup {Request(FreeSlot, 1, symbols[1])}
               /\ UNCHANGED <<rows, lastUpdated, clock>>
    /\ UNCHANGED <<symbolsInput, sortKey, sortDir, api>>

\* fetchStocks, lines 41-56: from the call to the first await.  An empty
\* symbol list returns at once; otherwise loading and error are reset and the
\* request of the first symbol is issued.
fetchStocks ==
    /\ calls < MaxCalls
    /\ \E c \in Cycles : ~Running(c)
    /\ calls' = calls + 1
    /\ LET symbols == parseSymbols(symbolsInput)
       IN IF Len(symbols) = 0
          THEN /\ cyc' = [cyc EXCEPT ![FreeSlot] = Stopped("returned")]
               /\ UNCHANGED <<loading, error, net>>
          ELSE /\ cyc' = [cyc EXCEPT ![FreeSlot] =
                             [pc |-> "fetch", symbols |-> symbols, results |-> <<>>]]
               /\ loading' = TRUE
               /\ error' = <<>>
               /\ net' = net \cup {Request(FreeSlot, 1, symbols[1])}
    /\ UNCHANGED <<symbolsInput, rows, sortKey, sortDir, lastUpdated, clock, api>>

\* useEffect(() => { fetchStocks(); }, []): once, when the component mounts.
Mount ==
    /\ ~mounted
    /\ mounted' = TRUE
    /\ fetchStocks
    /\ Render

\* The Refresh button never disabled (mutation of ClickRefresh).
ClickRefreshAlways ==
    /\ mounted
    /\ fetchStocks
    /\ UNCHANGED mounted
    /\ Render

\* The Refresh button: onClick={fetchStocks}, disabled={loading}.
ClickRefresh ==
    /\ mounted
    /\ ~loading
    /\ fetchStocks
    /\ UNCHANGED mounted
    /\ Render

\* catch without the finally block (mutation of Catch).
CatchNoFinally(c, isError, message) ==
    /\ error' = << IF isError THEN message ELSE "Unexpected error" >>
    /\ cyc' = [cyc EXCEPT ![c] = Stopped("aborted")]
    /\ net' = net \ {CurrentRequest(c)}
    /\ UNCHANGED <<rows, lastUpdated, clock, loading>>

\* Lines 126-131: the catch block (setError) and the finally block.
Catch(c, isError, message) ==
    /\ error' = << IF isError THEN message ELSE "Unexpected error" >>
    /\ loading' = FALSE
    /\ cyc' = [cyc EXCEPT ![c] = Stopped("aborted")]
    /\ net' = net \ {CurrentRequest(c)}
    /\ UNCHANGED <<rows, lastUpdated, clock>>

\* Push with the rows committed after every symbol (mutation of Push).
PushCommitEach(c, row) ==
    LET results == Append(cyc[c].results, row)
    IN /\ net' = (net \ {CurrentRequest(c)})
                  \cup (IF Len(results) < Len(cyc[c].symbols)
                        THEN {Request(c, Len(results) + 1, cyc[c].symbols[Len(results) + 1])}
                        ELSE {})
       /\ rows' = results
       /\ clock' = clock + 1
       /\ lastUpdated' = <<clock'>>
       /\ UNCHANGED error
       /\ IF Len(results) < Len(cyc[c].symbols)
          THEN /\ cyc' = [cyc EXCEPT ![c].results = results, ![c].pc = "fetch"]
               /\ UNCHANGED loading
          ELSE /\ loading' = FALSE
               /\ cyc' = [cyc EXCEPT ![c] = Stopped("committed")]

\* Push that reports a row without a quote on the error banner (mutation
\* of Push).
PushRaising(c, row) ==
    LET results == Append(cyc[c].results, row)
    IN /\ net' = (net \ {CurrentRequest(c)})
                  \cup (IF Len(results) < Len(cyc[c].symbols)
                        THEN {Request(c, Len(results) + 1, cyc[c].symbols[Len(results) + 1])}
                        ELSE {})
       /\ error' = IF row.status = "ok" THEN error ELSE <<row.status>>
       /\ IF Len(results) < Len(cyc[c].symbols)
          THEN /\ cyc' = [cyc EXCEPT ![c].results = results, ![c].pc = "fetch"]
               /\ UNCHANGED <<rows, lastUpdated, clock, loading>>
          ELSE /\ rows' = results
               /\ clock' = clock + 1
               /\ lastUpdated' = <<clock'>>
               /\ loading' = FALSE
               /\ cyc' = [cyc EXCEPT ![c] = Stopped("committed")]

\* Push that adds the committed rows to those already shown (mutation of
\* Push).
PushMerging(c, row) ==
    LET results == Append(cyc[c].results, row)
    IN IF Len(results) < Len(cyc[c].symbols)
       THEN /\ cyc' = [cyc EXCEPT ![c].results = results, ![c].pc = "fetch"]
            /\ net' = (net \ {CurrentRequest(c)})
                          \cup {Request(c, Len(results) + 1,
                                        cyc[c].symbols[Len(results) + 1])}
            /\ UNCHANGED <<rows, lastUpdated, clock, loading, error>>
       ELSE /\ net' = net \ {CurrentRequest(c)}
            /\ rows' = rows \o results
            /\ clock' = clock + 1
            /\ lastUpdated' = <<clock'>>
            /\ loading' = FALSE
            /\ cyc' = [cyc EXCEPT ![c] = Stopped("committed")]
            /\ UNCHANGED error

\* results.push(row) and what follows it: `continue` issues the request of
\* the next symbol; after the last symbol lines 124-125 commit (setRows,
\* setLastUpdated) and the finally block clears loading.
Push(c, row) ==
    LET results == Append(cyc[c].results, row)
    IN IF Len(results) < Len(cyc[c].symbols)
       THEN /\ cyc' = [cyc EXCEPT ![c].results = results, ![c].pc = "fetch"]
            /\ net' = (net \ {CurrentRequest(c)})
                          \cup {Request(c, Len(results) + 1,
                                        cyc[c].symbols[Len(results) + 1])}
            /\ UNCHANGED <<rows, lastUpdated, clock, loading, error>>
       ELSE /\ net' = net \ {CurrentRequest(c)}
            /\ rows' = results
            /\ clock' = clock + 1
            /\ lastUpdated' = <<clock'>>
            /\ loading' = FALSE
            /\ cyc' = [cyc EXCEPT ![c] = Stopped("committed")]
            /\ UNCHANGED error

\* The symbol read from the input as it is now, where it has one (mutation
\* of CurrentSymbol).
CurrentSymbolFromInput(c) ==
    LET now == parseSymbols(symbolsInput)
        i == Len(cyc[c].results) + 1
    IN IF i <= Len(now) THEN now[i] ELSE cyc[c].symbols[i]

\* The symbol whose request invocation c is waiting for.
CurrentSymbol(c) == cyc[c].symbols[Len(cyc[c].results) + 1]

\* await fetch(url) settles (lines 56-66): a rejection is thrown into the
\* catch block; a response that is not ok pushes an error row; a response
\* that is ok goes on to await res.json().
FetchSettles(c) ==
    /\ cyc[c].pc = "fetch"
    /\ \E r \in ServedHeads :
          IF r.kind = "reject" THEN Catch(c, r.isError, r.message)
          ELSE IF ~r.ok THEN Push(c, Row(CurrentSymbol(c), NULL, NULL, "error"))
          ELSE /\ cyc' = [cyc EXCEPT ![c].pc = "json"]
               /\ UNCHANGED <<rows, loading, error, lastUpdated, clock, net>>
    /\ UNCHANGED <<symbolsInput, sortKey, sortDir, mounted, calls, api>>
    /\ Render

\* await res.json() settles (lines 68-120): the body is classified and the
\* row pushed, or the exception is thrown into the catch block.
JsonSettles(c) ==
    /\ cyc[c].pc = "json"
    /\ \E r \in Served :
          /\ r.kind = "response" /\ r.ok
          /\ LET out == Classify(CurrentSymbol(c), r.body)
             IN IF out.threw THEN Catch(c, TRUE, out.message)
                ELSE Push(c, out.row)
    /\ UNCHANGED <<symbolsInput, sortKey, sortDir, mounted, calls, api>>
    /\ Render

\* The sort state after handleSort(key) with a new key keeping the direction
\* (mutation of AfterSort).
AfterSortKeepDir(key, k, d) ==
    IF key = k
    THEN [sortKey |-> k, sortDir |-> IF d = "asc" THEN "desc" ELSE "asc"]
    ELSE [sortKey |-> key, sortDir |-> d]

\* The sort state that handleSort(key) leaves, lines 140-147, as a function
\* of the sort state (k, d) it is called in.
AfterSort(key, k, d) ==
    IF key = k
    THEN [sortKey |-> k, sortDir |-> IF d = "asc" THEN "desc" ELSE "asc"]
    ELSE [sortKey |-> key, sortDir |-> "asc"]

\* handleSort with a new key keeping the direction (mutation of handleSort).
handleSortKeepDir(key) ==
    /\ mounted
    /\ IF key = sortKey
       THEN /\ sortDir' = IF sortDir = "asc" THEN "desc" ELSE "asc"
            /\ UNCHANGED sortKey
       ELSE /\ sortKey' = key
            /\ UNCHANGED sortDir
    /\ UNCHANGED <<symbolsInput, rows, loading, error, lastUpdated, mounted,
                   calls, cyc, clock, api, net>>
    /\ Render

\* handleSort, lines 140-147
handleSort(key) ==
    /\ mounted
    /\ IF key = sortKey
       THEN /\ sortDir' = IF sortDir = "asc" THEN "desc" ELSE "asc"
            /\ UNCHANGED sortKey
       ELSE /\ sortKey' = key
            /\ sortDir' = "asc"
    /\ UNCHANGED <<symbolsInput, rows, loading, error, lastUpdated, mounted,
                   calls, cyc, clock, api, net>>
    /\ Render

\* onChange={(e) => setSymbolsInput(e.target.value)}
setSymbolsInput(value) ==
    /\ mounted
    /\ symbolsInput' = value
    /\ UNCHANGED <<rows, loading, error, sortKey, sortDir, lastUpdated, mounted,
                   calls, cyc, clock, api, net>>
    /\ Render

Next ==
    \/ Mount
    \/ ClickRefresh
    \/ \E c \in Cycles : FetchSettles(c)
    \/ \E c \in Cycles : JsonSettles(c)
    \/ \E key \in SortKeys : handleSort(key)
    \/ \E value \in Inputs : setSymbolsInput(value)

Spec == Init /\ [][Next]_vars

\* Every request eventually settles: fetch resolves or rejects, and
\* res.json() resolves or rejects.
Fairness ==
    WF_vars(\E c \in Cycles : FetchSettles(c) \/ JsonSettles(c))

\* The steps of the refresh cycles: no sorting, one edit of the input.
NextFixed ==
    \/ Mount
    \/ ClickRefresh
    \/ \E c \in Cycles : FetchSettles(c)
    \/ \E c \in Cycles : JsonSettles(c)
    \/ setSymbolsInput(<<"b", ",", " ", "a">>)

\* The refresh cycles in front of an endpoint that answers every request alike.
SpecFixed == InitFixed /\ [][NextFixed]_vars

\* The refresh cycles alone (no sorting, one edit of the input) in front of
\* an endpoint that may answer in any way, every request settling in the end.
FairSpec == Init /\ [][NextFixed]_vars /\ Fairness

\* fetchStocks called while a cycle may be in flight: the callback invoked
\* without regard to the loading flag, as many times as there are slots.
Retrigger ==
    /\ mounted
    /\ calls < MaxCycles
    /\ fetchStocks
    /\ UNCHANGED mounted
    /\ Render

\* The steps of refresh cycles that may overlap.
NextOverlap ==
    \/ Mount
    \/ Retrigger
    \/ \E c \in Cycles : FetchSettles(c)
    \/ \E c \in Cycles : JsonSettles(c)
    \/ setSymbolsInput(<<"b", ",", " ", "a">>)

\* Refresh cycles triggered at any time, also while another is in flight.
SpecOverlap == Init /\ [][NextOverlap]_vars

\* Rows given to the row sorter alone: two rows without a quote, whose price
\* and changePercent are null, and three rows with a quote, one of them with
\* a price that does not parse.
SortRows ==
    {Row(<<"A">>, NULL, NULL, "error"),
     Row(<<"B">>, NULL, NULL, "no-data"),
     Row(<<"A">>, Num(5), Num(0), "ok"),
     Row(<<"B">>, Num(12), Num(-2), "ok"),
     Row(<<"B">>, NaN, Num(1), "ok")}

\* The lists of up to MaxRows different rows of SortRows.
SortRowLists ==
    UNION {{r \in [1..n -> SortRows] : \A i, j \in 1..n : r[i] = r[j] => i = j} :
           n \in 1..MaxRows}

\* The component after a first cycle has committed some rows.
InitSort ==
    /\ symbolsInput = join(DEFAULT_SYMBOLS, <<",", " ">>)
    /\ rows \in SortRowLists
    /\ loading = FALSE
    /\ error = <<>>
    /\ sortKey = "symbol"
    /\ sortDir = "asc"
    /\ lastUpdated = <<1>>
    /\ mounted = TRUE
    /\ calls = 1
    /\ cyc = [c \in Cycles |-> IF c = 1 THEN Stopped("committed") ELSE Stopped("idle")]
    /\ clock = 1
    /\ api = AnyResponse
    /\ net = {}
    /\ sortedRows \in Sort(rows, sortKey, sortDir)

\* The clicks on the column headers.
NextSort == \E key \in SortKeys : handleSort(key)

\* The row sorter alone: committed rows of any kind, sorted by every key in
\* both directions.
SpecSort == InitSort /\ [][NextSort]_vars

----------------------------------------------------------------------------
\* Steps of a refresh cycle, as seen on the state

\* Invocation c starts a cycle: it issues its first request.
Starts(c) == ~Running(c) /\ cyc'[c].pc = "fetch"

\* Invocation c completes normally: lines 124-125 run.
Commits(c) == Running(c) /\ cyc'[c].pc = "committed"

\* Invocation c ends in the catch block.
Aborts(c) == Running(c) /\ cyc'[c].pc = "aborted"

\* Invocation c appends a row to its results, or appends the last one and
\* commits.
Appends(c) ==
    /\ Running(c)
    /\ \/ cyc'[c].pc = "committed"
       \/ Running(c)' /\ Len(cyc'[c].results) = Len(cyc[c].results) + 1

\* The rows that invocation c commits in this step carry its results, then
\* one more row, one row per symbol.
CommitsAllOf(c) ==
    /\ Len(rows') = Len(cyc[c].symbols)
    /\ SubSeq(rows', 1, Len(cyc[c].results)) = cyc[c].results
    /\ Len(cyc[c].results) + 1 = Len(cyc[c].symbols)

----------------------------------------------------------------------------
\* C1: when the request of a symbol throws, that symbol gets an error row and
\* the loop goes on; a thrown request never aborts the batch.  Stated on the
\* state: an invocation that waits for fetch leaves that wait by appending a
\* row or by going on to read the body, never by ending in the catch block.
\* The code has one try block around the whole loop, so this fails.
C1_ThrownRequestKeepsBatch ==
    [][\A c \in Cycles : cyc[c].pc = "fetch" => ~Aborts(c)]_vars

----------------------------------------------------------------------------
\* C2: the status of a row is the outcome of the first matching rule.

\* The outcome of the first rule of a list of <<condition, statuses>> whose
\* condition holds.
FirstMatch(rules) ==
    rules[CHOOSE i \in 1..Len(rules) :
             rules[i][1] /\ \A j \in 1..(i - 1) : ~rules[j][1]][2]

HasThrottlingField(b) ==
    b.t = "object" /\ (b.Note.t = "string" \/ b.Information.t = "string")

HasErrorField(b) == b.t = "object" /\ b.ErrorMessage.t # "undefined"

HasNonEmptyErrorField(b) == b.t = "object" /\ Truthy(b.ErrorMessage)

HasPriceField(b) ==
    b.t = "object" /\ b.GlobalQuote.t = "object"
    /\ b.GlobalQuote.price.t # "undefined"

HasNonEmptyPriceField(b) ==
    b.t = "object" /\ b.GlobalQuote.t = "object" /\ Truthy(b.GlobalQuote.price)

\* The rules as the claim words them: an error field that is present, a
\* price field that is present.
RulesAsWorded(r) ==
    << <<~r.ok, {"error"}>>,
       <<HasThrottlingField(r.body), {"rate-limited"}>>,
       <<HasErrorField(r.body), {"error"}>>,
       <<~HasPriceField(r.body), {"rate-limited", "no-data"}>>,
       <<TRUE, {"ok"}>> >>

\* The rules with the error field and the price field tested for a non-empty
\* value.
RulesByValue(r) ==
    << <<~r.ok, {"error"}>>,
       <<HasThrottlingField(r.body), {"rate-limited"}>>,
       <<HasNonEmptyErrorField(r.body), {"error"}>>,
       <<~HasNonEmptyPriceField(r.body), {"rate-limited", "no-data"}>>,
       <<TRUE, {"ok"}>> >>

\* Every row produced so far, committed or still private to an invocation.
ProducedRows ==
    {rows[i] : i \in DOMAIN rows}
    \cup UNION {{cyc[c].results[i] : i \in DOMAIN cyc[c].results} : c \in Cycles}

\* C2 as worded: with the endpoint answering in one way, every row produced
\* has the status of the first matching rule, where rule 3 is "the body has
\* an error field" and rule 4 "the quote is absent or has no price field".
C2_FirstMatchAsWorded ==
    api.kind = "response" =>
        \A row \in ProducedRows : row.status \in FirstMatch(RulesAsWorded(api))

\* C2 amended: the same, where rule 3 is "the body has a non-empty (truthy)
\* error field" and rule 4 "the quote is absent or its price field is absent
\* or empty (falsy)".
C2_FirstMatchByValue ==
    api.kind = "response" =>
        \A row \in ProducedRows : row.status \in FirstMatch(RulesByValue(api))

\* A body with a throttling field, an error field and a complete quote was
\* served and its row is rate-limited.
C2_Witness ==
    /\ api.kind = "response" /\ api.ok
    /\ HasThrottlingField(api.body)
    /\ HasNonEmptyErrorField(api.body)
    /\ HasNonEmptyPriceField(api.body)
    /\ Len(rows) = 2
    /\ rows[2].status = "rate-limited"

----------------------------------------------------------------------------
\* C3: every row has one of the four statuses, price and changePercent are
\* both null when the status is not ok and both set when it is ok, and the
\* change percent of an ok row whose payload has no change-percent field is 0.
RowWellFormed(row) ==
    /\ row.status \in Statuses
    /\ (row.price = NULL) <=> (row.changePercent = NULL)
    /\ row.status # "ok" => row.price = NULL /\ row.changePercent = NULL
    /\ row.status = "ok" => row.price # NULL /\ row.changePercent # NULL
    /\ row.price.t \in {"null", "num", "nan"}
    /\ row.changePercent.t \in {"null", "num", "nan"}

C3_RowsWellFormed ==
    \A row \in ProducedRows :
        /\ RowWellFormed(row)
        /\ (api.kind = "response" /\ row.status = "ok"
            /\ api.body.GlobalQuote.changePercent.t = "undefined")
           => row.changePercent = Num(0)

\* An ok row was committed for a payload without a change-percent field.
C3_Witness ==
    /\ api.kind = "response"
    /\ api.body.GlobalQuote.changePercent.t = "undefined"
    /\ Len(rows) = 2
    /\ rows[1].status = "ok"
    /\ rows[1].price = Num(5)
    /\ rows[1].changePercent = Num(0)

----------------------------------------------------------------------------
\* C4: rows and lastUpdated change only in the step in which an invocation
\* has the row of its last symbol, and then both change, rows to the full
\* list of that invocation; a step that ends an invocation in the catch block
\* leaves rows and lastUpdated as they were and sets error to a message.
C4_CommitOnlyWhenComplete ==
    [][/\ (rows' # rows \/ lastUpdated' # lastUpdated)
          => \E c \in Cycles :
                /\ Commits(c)
                /\ CommitsAllOf(c)
                /\ lastUpdated' # lastUpdated
                /\ lastUpdated' # <<>>
       /\ \A c \in Cycles :
             Aborts(c) => /\ rows' = rows
                          /\ lastUpdated' = lastUpdated
                          /\ error' # <<>>]_vars

\* An invocation ended in the catch block after an earlier one had committed:
\* the earlier rows and timestamp are still there, next to the error.
C4_Witness ==
    /\ \E c \in Cycles : cyc[c].pc = "aborted"
    /\ Len(rows) = 2
    /\ lastUpdated # <<>>
    /\ error # <<>>

----------------------------------------------------------------------------
\* C5: a cycle that starts sets loading and clears error; every step that
\* ends a cycle, by commit or in the catch block, clears loading; and when
\* every request settles, a running cycle leads to loading = false.
C5_LoadingReleased ==
    /\ [][\A c \in Cycles :
             /\ Starts(c) => loading' /\ error' = <<>>
             /\ (Commits(c) \/ Aborts(c)) => ~loading']_vars
    /\ (\E c \in Cycles : Running(c)) ~> ~loading

\* A cycle ended in the catch block and loading is false.
C5_Witness ==
    /\ \E c \in Cycles : cyc[c].pc = "aborted"
    /\ error # <<>>
    /\ ~loading

----------------------------------------------------------------------------
\* C6: the symbols of a cycle are the input's pieces, trimmed, uppercased,
\* empty ones dropped, in order and with repetitions; every row appended is
\* the row of the next symbol, and the commit has one row per symbol in order.

\* The number of commas among the first i characters of s.
CommasBefore(s, i) == Cardinality({j \in 1..(i - 1) : s[j] = ","})

\* The pieces of s, numbered by the commas before them, that hold a character
\* other than a space.
NonBlankPieces(s) ==
    {CommasBefore(s, i) : i \in {j \in 1..Len(s) : s[j] \notin {",", " "}}}

\* s without the characters of set cs.
Without(s, cs) == SelectSeq(s, LAMBDA x : x \notin cs)

RECURSIVE Concat(_)
Concat(ss) == IF ss = <<>> THEN <<>> ELSE Head(ss) \o Concat(Tail(ss))

\* symbols is the normalized list of input.
NormalizedFrom(input, symbols) ==
    /\ Len(symbols) = Cardinality(NonBlankPieces(input))
    /\ \A i \in 1..Len(symbols) :
          /\ symbols[i] # <<>>
          /\ symbols[i][1] # " " /\ symbols[i][Len(symbols[i])] # " "
          /\ \A j \in 1..Len(symbols[i]) : symbols[i][j] \notin Lower \cup {","}
    /\ Without(Concat(symbols), {" "}) = toUpperCase(Without(input, {",", " "}))

C6_RowPerSymbolInOrder ==
    [][\A c \in Cycles :
          /\ Starts(c) => /\ NormalizedFrom(symbolsInput, cyc'[c].symbols)
                          /\ cyc'[c].results = <<>>
          /\ (Appends(c) /\ ~Commits(c))
             => /\ cyc'[c].symbols = cyc[c].symbols
                /\ SubSeq(cyc'[c].results, 1, Len(cyc[c].results)) = cyc[c].results
                /\ cyc'[c].results[Len(cyc'[c].results)].symbol
                      = cyc[c].symbols[Len(cyc'[c].results)]
                /\ Len(cyc'[c].results) < Len(cyc[c].symbols)
          /\ Commits(c)
             => /\ CommitsAllOf(c)
                /\ \A i \in 1..Len(rows') : rows'[i].symbol = cyc[c].symbols[i]]_vars

\* The symbol A typed twice was requested twice and gave two rows, which
\* differ in status.
C6_Witness ==
    /\ symbolsInput = <<"a", " ", ",", ",", "a">>
    /\ Len(rows) = 2
    /\ rows[1].symbol = <<"A">>
    /\ rows[2].symbol = <<"A">>
    /\ rows[1].status = "ok"
    /\ rows[2].status = "no-data"

----------------------------------------------------------------------------
\* C7: when the input holds nothing but commas and white space, a call of
\* fetchStocks issues no request and changes none of rows, loading, error,
\* lastUpdated, sortKey, sortDir.
C7_EmptyListStartsNothing ==
    [][(calls' = calls + 1 /\ \A i \in 1..Len(symbolsInput) : symbolsInput[i] \in {",", " "})
          => /\ UNCHANGED <<rows, loading, error, lastUpdated, sortKey, sortDir>>
             /\ \A c \in Cycles : ~Running(c)']_vars

\* fetchStocks returned at its guard while an error and rows of earlier
\* cycles were shown, and they are still shown.
C7_Witness ==
    /\ \E c \in Cycles : cyc[c].pc = "returned"
    /\ calls = 3
    /\ error # <<>>
    /\ Len(rows) = 1
    /\ lastUpdated # <<>>
    /\ ~loading

----------------------------------------------------------------------------
\* C8: appending a row, whatever its status, leaves error null and never ends
\* the cycle in the catch block; a commit writes the full row list, a new
\* lastUpdated and leaves error null; error becomes non-null only in a step
\* that ends a cycle in the catch block, and is then the message of the
\* exception.
ExceptionMessages ==
    {"Failed to fetch", "Unexpected error", "Unexpected token",
     "Cannot read properties of null", "replace is not a function"}

----------------------------------------------------------------------------
\* C9: classification never throws: whatever response the endpoint gives, no
\* cycle ends in the catch block and error stays null; and a success-status
\* response whose body does not parse, or parses to something that is not an
\* object, gives rows of status error.  The code lets the exceptions of
\* res.json() and of data.Note reach the catch block, so this fails.
C9_MalformedBodyGivesErrorRow ==
    api.kind = "response" =>
        /\ \A c \in Cycles : cyc[c].pc # "aborted"
        /\ error = <<>>
        /\ (api.ok /\ api.body.t # "object")
           => \A row \in ProducedRows : row.status = "error"

----------------------------------------------------------------------------
\* C10: for a success-status body without throttling field and error field
\* whose quote is absent or has no price field, the status is rate-limited
\* exactly for the empty body and no-data otherwise.
InC10Case(r) ==
    /\ r.kind = "response" /\ r.ok
    /\ ~HasThrottlingField(r.body)
    /\ ~HasErrorField(r.body)
    /\ ~HasPriceField(r.body)

\* The body is an object without any key.
IsEmptyObject(b) ==
    /\ b.t = "object"
    /\ b.Note.t = "undefined" /\ b.Information.t = "undefined"
    /\ b.ErrorMessage.t = "undefined" /\ b.GlobalQuote.t = "undefined"
    /\ b.other = 0

\* The body has no key at all: an empty object, or a value that is no object
\* and has no keys (a number, a boolean, an empty string, an empty array).
HasNoKeys(b) ==
    \/ IsEmptyObject(b)
    \/ b.t \in {"number", "bool"}
    \/ b.t = "string" /\ b.s = <<>>
    \/ b.t = "array" /\ b.n = 0

----------------------------------------------------------------------------
\* The requests of one refresh cycle

\* C11: within one refresh cycle at most one request is in flight at any
\* time; the request of symbol i+1 is issued only in the step in which the
\* request of symbol i has settled and its row has been appended; the
\* requests are issued in the order of the symbols of the cycle.
C11_OneRequestAtATime ==
    [][\A c \in Cycles :
          /\ Cardinality({r \in net' : r.cycle = c}) <= 1
          /\ \A r \in net' \ net :
                r.cycle = c =>
                   /\ r.index = Len(cyc'[c].results) + 1
                   /\ r.index <= Len(cyc'[c].symbols)
                   /\ r.symbol = cyc'[c].symbols[r.index]
                   /\ IF r.index = 1 THEN Starts(c)
                      ELSE /\ cyc'[c].symbols = cyc[c].symbols
                           /\ Request(c, r.index - 1, cyc[c].symbols[r.index - 1]) \in net
                           /\ Request(c, r.index - 1, cyc[c].symbols[r.index - 1]) \notin net'
                           /\ Len(cyc[c].results) = r.index - 2
                           /\ cyc'[c].results[r.index - 1].symbol
                                 = cyc[c].symbols[r.index - 1]]_vars

\* C11: a cycle of two symbols has appended the row of the first and waits
\* for the request of the second, the only one in flight.
C11_Witness ==
    \E c \in Cycles :
       /\ cyc[c].symbols = << <<"B">>, <<"A">> >>
       /\ Len(cyc[c].results) = 1
       /\ cyc[c].pc = "fetch"
       /\ net = {Request(c, 2, <<"A">>)}

----------------------------------------------------------------------------
\* C12: when a cycle is triggered while another is in flight, each
\* accumulates its rows privately (a step of one invocation leaves the list
\* of the other, and an invocation's own step appends one row of its own next
\* symbol); rows changes only when one invocation commits, to the complete
\* list of that invocation alone, one row per symbol of its list; every
\* commit replaces rows and sets lastUpdated to a later time than any before,
\* so after both have completed rows and lastUpdated are those of the cycle
\* that completed last.
C12_OverlappingCyclesKeepApart ==
    [][/\ \A c \in Cycles :
             /\ (Running(c) /\ \E d \in Cycles \ {c} : cyc'[d] # cyc[d])
                => cyc'[c] = cyc[c]
             /\ (Running(c) /\ Running(c)')
                => /\ cyc'[c].symbols = cyc[c].symbols
                   /\ \/ cyc'[c].results = cyc[c].results
                      \/ /\ Len(cyc'[c].results) = Len(cyc[c].results) + 1
                         /\ SubSeq(cyc'[c].results, 1, Len(cyc[c].results))
                               = cyc[c].results
                         /\ cyc'[c].results[Len(cyc'[c].results)].symbol
                               = CurrentSymbol(c)
             /\ Commits(c)
                => /\ CommitsAllOf(c)
                   /\ \A i \in 1..Len(rows') : rows'[i].symbol = cyc[c].symbols[i]
                   /\ clock' > clock
                   /\ lastUpdated' = <<clock'>>
       /\ (rows' # rows \/ lastUpdated' # lastUpdated)
             => \E c \in Cycles : Commits(c)
       /\ lastUpdated' \in {<<>>, <<clock'>>}]_vars

\* C12: two cycles were in flight together and both have committed; the rows
\* are the two rows of one of them and the time is that of the second commit.
C12_Witness ==
    /\ \A c \in {1, 2} : cyc[c].pc = "committed"
    /\ clock = 2
    /\ lastUpdated = <<2>>
    /\ Len(rows) = 2
    /\ rows[1].symbol = <<"B">>
    /\ rows[2].symbol = <<"A">>
    /\ ~loading

----------------------------------------------------------------------------
\* C13: handleSort(key) called with the active key leaves sortKey and flips
\* sortDir; called with another key it sets sortKey to that key and sortDir
\* to ascending; sortKey is always one of the three keys and sortDir one of
\* the two directions.
C13_HandleSortRule ==
    [][/\ \A key \in SortKeys :
             handleSort(key) =>
                IF key = sortKey
                THEN /\ sortKey' = sortKey
                     /\ sortDir' # sortDir
                ELSE /\ sortKey' = key
                     /\ sortDir' = "asc"
       /\ sortKey \in SortKeys /\ sortKey' \in SortKeys
       /\ sortDir \in {"asc", "desc"} /\ sortDir' \in {"asc", "desc"}]_vars

\* C13: another key was chosen and then toggled.
C13_Witness == sortKey = "price" /\ sortDir = "desc" /\ Len(rows) = 1

----------------------------------------------------------------------------
\* C16 as worded: from any sort state, two successive calls of handleSort
\* with the same column give ascending after the first and descending after
\* the second, the active column staying what it was.  Fails in the initial
\* state: the symbol column is active and ascending, and the first call with
\* it gives descending.
C16_TwoTogglesAsWorded ==
    \A key \in SortKeys :
       LET s1 == AfterSort(key, sortKey, sortDir)
           s2 == AfterSort(key, s1.sortKey, s1.sortDir)
       IN /\ s1.sortDir = "asc"
          /\ s2.sortDir = "desc"
          /\ s1.sortKey = sortKey
          /\ s2.sortKey = sortKey

\* C16, amended: a call of handleSort with a column makes or keeps it the
\* active column, and so does a second call with the same column.  If the
\* column was not active, the direction is ascending after the first call
\* and descending after the second; if it was active, each call flips the
\* direction: opposite after the first, back to the original after the
\* second.
C16_TwoToggles ==
    [][\A key \in SortKeys :
          handleSort(key) =>
             LET s2 == AfterSort(key, sortKey', sortDir')
             IN /\ [sortKey |-> sortKey', sortDir |-> sortDir']
                      = AfterSort(key, sortKey, sortDir)
                /\ sortKey' = key
                /\ s2.sortKey = key
                /\ IF key = sortKey
                   THEN /\ sortDir' # sortDir
                        /\ s2.sortDir = sortDir
                   ELSE /\ sortDir' = "asc"
                        /\ s2.sortDir = "desc"]_vars

\* C16: the changePercent column was chosen and toggled; two rows are shown.
C16_Witness == sortKey = "changePercent" /\ sortDir = "desc" /\ Len(rows) = 2

----------------------------------------------------------------------------
\* C14: no step of a refresh cycle (its start, a request settling, a row
\* appended, the commit, the abort) changes sortKey or sortDir, and a step
\* that changes sortKey or sortDir, which only handleSort takes, changes none
\* of rows, loading, error, lastUpdated nor any cycle; so the sort chosen
\* before or during a cycle is in force after its commit.
C14_SortAndCyclesIndependent ==
    [][/\ (cyc' # cyc \/ calls' # calls \/ net' # net \/ rows' # rows
              \/ loading' # loading \/ error' # error \/ lastUpdated' # lastUpdated)
             => sortKey' = sortKey /\ sortDir' = sortDir
       /\ (sortKey' # sortKey \/ sortDir' # sortDir)
             => /\ \E key \in SortKeys : sortKey' = key
                /\ UNCHANGED <<rows, loading, error, lastUpdated, cyc, net>>]_vars

\* C14: the price column was chosen and toggled, a cycle has committed and
\* the next one has appended its first row: the sort is still the chosen one.
C14_Witness ==
    /\ sortKey = "price"
    /\ sortDir = "desc"
    /\ rows # <<>>
    /\ lastUpdated # <<>>
    /\ \E c \in Cycles : Running(c) /\ Len(cyc[c].results) = 1

----------------------------------------------------------------------------
\* C17: with cycles triggered only by the mount effect and by the Refresh
\* button, which is disabled while loading, at most one cycle is in flight
\* at any time, and loading is true exactly when a cycle is in flight.
C17_LoadingIffInFlight ==
    /\ Cardinality({c \in Cycles : Running(c)}) <= 1
    /\ loading <=> \E c \in Cycles : Running(c)
    /\ Cardinality(net) = IF loading THEN 1 ELSE 0

\* C17: after a first cycle the button has started a second one, which waits
\* for the body of its response.
C17_Witness ==
    /\ loading
    /\ calls = 2
    /\ cyc[1].pc = "json"
    /\ cyc[2].pc = "idle"

----------------------------------------------------------------------------
\* C18: a cycle works on the symbol list parsed from the input when it
\* started: the list is the parse of the input at the start and stays the
\* same while the cycle runs; every request issued is for the next symbol of
\* that list; the committed rows carry the symbols of that list, one each.
\* A step that edits the input changes none of rows, loading, error,
\* lastUpdated, nor any cycle or request.
C18_InputEditLeavesCycle ==
    [][/\ symbolsInput' # symbolsInput
             => UNCHANGED <<rows, loading, error, lastUpdated, cyc, net, calls>>
       /\ \A c \in Cycles :
             /\ Starts(c) => cyc'[c].symbols = parseSymbols(symbolsInput)
             /\ (Running(c) /\ Running(c)') => cyc'[c].symbols = cyc[c].symbols
             /\ Appends(c) /\ Running(c)'
                   => cyc'[c].results[Len(cyc'[c].results)].symbol
                         = cyc[c].symbols[Len(cyc'[c].results)]
             /\ Commits(c)
                   => /\ Len(rows') = Len(cyc[c].symbols)
                      /\ \A i \in 1..Len(rows') : rows'[i].symbol = cyc[c].symbols[i]
       /\ \A r \in net' \ net :
             r.symbol = cyc'[r.cycle].symbols[r.index]]_vars

\* C18: a cycle started on "b, a" has appended the row of B and waits for
\* the request of A, while the input has been emptied.
C18_Witness ==
    /\ symbolsInput = <<>>
    /\ \E c \in Cycles :
          /\ Running(c)
          /\ cyc[c].symbols = << <<"B">>, <<"A">> >>
          /\ Len(cyc[c].results) = 1
          /\ cyc[c].results[1].symbol = <<"B">>
          /\ Request(c, 2, <<"A">>) \in net

----------------------------------------------------------------------------
\* The order the row sorter is to give

\* The value a row is sorted by.
SortValue(row) == row[sortKey]

\* Two rows have the same sort value: the same symbol, or the same number
\* with null counted as 0.  NaN equals nothing.
EqualKeys(a, b) ==
    IF sortKey = "symbol" THEN SortValue(a) = SortValue(b)
    ELSE /\ ToNumber(SortValue(a)).t = "num"
         /\ ToNumber(SortValue(b)).t = "num"
         /\ ToNumber(SortValue(a)).n = ToNumber(SortValue(b)).n

\* Row a is to come before row b: its value is the smaller one when the
\* direction is ascending, the greater one when it is descending.
ComesBefore(a, b) ==
    IF sortDir = "asc" THEN Less(sortKey, SortValue(a), SortValue(b))
    ELSE Less(sortKey, SortValue(b), SortValue(a))

\* Where a row stands in the stored rows.
PositionInRows(row) == CHOOSE i \in 1..Len(rows) : rows[i] = row

\* sortedRows holds the stored rows in the order asked for.
SortedAsAsked ==
    /\ sortedRows \in Rearrangements(rows)
    /\ \A i, j \in 1..Len(sortedRows) :
          i < j => /\ ~ComesBefore(sortedRows[j], sortedRows[i])
                   /\ EqualKeys(sortedRows[i], sortedRows[j])
                         => PositionInRows(sortedRows[i]) < PositionInRows(sortedRows[j])
    /\ Sort(sortedRows, sortKey, sortDir) = {sortedRows}

----------------------------------------------------------------------------
\* C15: the row sorter never changes the stored rows; its output is a
\* rearrangement of rows in which no row stands after a row that is to come
\* after it by the chosen field (smaller first for ascending, greater first
\* for descending); rows with equal values keep the order they have in rows;
\* and sorting the output again gives the output.  Fails for rows whose
\* price did not parse: every comparison with NaN is false, so the
\* comparator calls NaN equal to 5 and to null but 5 greater than null, and
\* the order of such rows is whatever the engine's algorithm leaves.
C15_SorterOrdersRows ==
    [][rows' = rows /\ SortedAsAsked']_vars

----------------------------------------------------------------------------
\* C19: when the sort is by price or by changePercent, a row whose value is
\* null stands where a row of value 0 would: before every row of positive
\* value and after every row of negative value when ascending, the reverse
\* when descending; and rows whose values are null or 0 keep the order they
\* have in rows.  Fails with C15: next to a row whose price is NaN the
\* order is not determined, and a null row can stand after a positive one.
C19_NullSortsAsZero ==
    sortKey \in {"price", "changePercent"} =>
       \A i, j \in 1..Len(sortedRows) :
          LET a == SortValue(sortedRows[i])
              b == SortValue(sortedRows[j])
          IN a.t = "null" =>
                /\ (b.t = "num" /\ b.n > 0) => (IF sortDir = "asc" THEN i < j ELSE j < i)
                /\ (b.t = "num" /\ b.n < 0) => (IF sortDir = "asc" THEN j < i ELSE i < j)
                /\ (i < j /\ (b.t = "null" \/ (b.t = "num" /\ b.n = 0)))
                      => PositionInRows(sortedRows[i]) < PositionInRows(sortedRows[j])

====
